---- MODULE Spec2Model ----
(***************************************************************************)
(* Browser-facing authentication client: the token-refresh coordinator of *)
(* src/lib/api.ts (the axios response interceptor), the session cookies   *)
(* written by the /api/auth/* route handlers, and the session state store *)
(* (AuthContext).                                                          *)
(*                                                                         *)
(* One action is one JavaScript task: the code between two suspension     *)
(* points (awaited network calls) runs without interleaving, and the      *)
(* promise callbacks it schedules (microtasks) run before the next        *)
(* network event is delivered.                                             *)
(*                                                                         *)
(* A request to a route handler carries the cookies of the jar at the     *)
(* moment it is sent; the Set-Cookie headers of its response are applied  *)
(* to the jar when the response arrives.                                   *)
(***************************************************************************)
EXTENDS Integers, Sequences, FiniteSets, TLC

\* Number of authorized calls issued through apiClient.
NumCalls == 3

Calls == 1..NumCalls

(***************************************************************************)
(* Values.  A token is opaque.  A cookie is absent or holds the value it  *)
(* was written with: a token, or undefined when the handler wrote a       *)
(* missing field.  Text fields (email, username, password) are sequences  *)
(* of characters.                                                          *)
(***************************************************************************)
Absent == "absent"

Undefined == "undefined"

Token == "token"

\* JavaScript truthiness of a string-or-undefined value.
Truthy(v) == v \notin {Undefined, Absent, ""}

\* `!!value` of cookies.ts isAuthenticated, of the route handlers' cookie
\* checks and of the proxy: existence of a cookie.
Has(v) == Truthy(v)

\* `!field` of a text field of a request body.
Blank(text) == Len(text) = 0

(***************************************************************************)
(* Pathnames are sequences of text pieces: '/dashboard/profile' is        *)
(* <<"/dashboard", "/profile">>, '/dashboardx' is <<"/dashboard", "x">>.  *)
(***************************************************************************)
RootPath == <<"/">>

SigninPath == <<"/signin">>

SignupPath == <<"/signup">>

DashboardPath == <<"/dashboard">>

NoPath == <<>>

(***************************************************************************)
(* Errors.  status 0 stands for "no response" (network error).            *)
(***************************************************************************)
SessionExpiredMsg == "Session expired. Please login again."

NoRefreshTokenMsg == "No refresh token found. Please login again."

NoTokensMsg == "Token refresh failed - no tokens received from backend"

NoErr == [name |-> "none", from |-> "none", status |-> 0, message |-> ""]

\* The AxiosError of a failed request: `from` is the request that failed.
AxiosError(from, status, message) ==
  [name |-> "AxiosError", from |-> from, status |-> status, message |-> message]

\* new Error('Session expired. Please login again.')
SessionExpiredError ==
  [name |-> "Error", from |-> "interceptor", status |-> 0, message |-> SessionExpiredMsg]

VARIABLES
  cookies,              \* the browser's cookie jar: accessToken, refreshToken
  isRefreshing,         \* api.ts: let isRefreshing
  failedRequestsQueue,  \* api.ts: let failedRequestsQueue (entries named by their call)
  pc,                   \* where each call's promise chain stands
  retry,                \* originalRequest._retry of each call
  isRefreshUrl,         \* whether the call's url includes '/auth/refresh'
  sends,                \* how many times the call was dispatched through apiClient
  err,                  \* the error the call rejects with
  sentRefresh,          \* refreshToken cookie carried by the call's renewal request
  refreshCalls,         \* POST /api/auth/refresh requests dispatched
  logoutCalls,          \* POST /api/auth/logout requests dispatched
  navCount,             \* assignments window.location.href = '/signin'
  resp,                 \* the route handler response seen last (sign-up / sign-in
                        \* in the store, any route when served directly)
  user,                 \* AuthProvider: useState user
  isLoading,            \* AuthProvider: useState isLoading
  localUser,            \* localStorage item 'user'
  location,             \* the pathname of the page the browser shows
  ops,                  \* the signUp / signIn / logout calls in flight
  completed,            \* the store operation that just completed
  gate,                 \* the proxy's decision on the last page request
  guard                 \* the dependencies DashboardPage's effect last ran with

coordVars == <<isRefreshing, failedRequestsQueue, pc, retry, isRefreshUrl, sends,
               err, sentRefresh, refreshCalls, logoutCalls, navCount>>

storeVars == <<user, isLoading, localUser, location, ops, completed>>

vars == <<cookies, coordVars, resp, gate, guard, storeVars>>

(***************************************************************************)
(* Session Cookie Store (lib/cookies.ts)                                   *)
(***************************************************************************)
\* setAuthCookies: both cookies written, access first, each with the
\* max-age (seconds) it is given.
setAuthCookies(accessToken, refreshToken) ==
  [accessToken |-> accessToken, accessMaxAge |-> 15 * 60,
   refreshToken |-> refreshToken, refreshMaxAge |-> 7 * 24 * 60 * 60]

\* clearAuthCookies: both cookies written empty with maxAge 0, which the
\* browser drops at once.
clearAuthCookies ==
  [accessToken |-> Absent, accessMaxAge |-> 0,
   refreshToken |-> Absent, refreshMaxAge |-> 0]

\* defaultCookieOptions
defaultCookieOptions == [httpOnly |-> TRUE, sameSite |-> "strict", path |-> "/"]

\* One cookieStore.set(name, value, options).
CookieWrite(name, value, options, maxAge) ==
  [name |-> name, value |-> value, httpOnly |-> options.httpOnly,
   sameSite |-> options.sameSite, path |-> options.path, maxAge |-> maxAge]

\* setCookie(name, value, {maxAge}): the default options, then the given ones.
setCookie(name, value, maxAge) == CookieWrite(name, value, defaultCookieOptions, maxAge)

\* deleteCookie(name): the empty value with the default options and maxAge 0.
deleteCookie(name) == CookieWrite(name, "", defaultCookieOptions, 0)

\* The cookieStore.set calls of setAuthCookies and of clearAuthCookies that
\* leave the jar as it is given.
WritesOf(jar) ==
  IF jar = clearAuthCookies
  THEN << deleteCookie("accessToken"), deleteCookie("refreshToken") >>
  ELSE << setCookie("accessToken", jar.accessToken, jar.accessMaxAge),
          setCookie("refreshToken", jar.refreshToken, jar.refreshMaxAge) >>

BothCookies == Has(cookies.accessToken) /\ Has(cookies.refreshToken)

NoCookies == ~Has(cookies.accessToken) /\ ~Has(cookies.refreshToken)

(***************************************************************************)
(* Backend Gateway: what the identity backend answers to a route handler. *)
(* A reply is a 2xx response with a JSON body, an error status, or no     *)
(* response at all.  The body's credential keys vary in casing.           *)
(***************************************************************************)
\* a || b || c
Or3(a, b, c) == IF Truthy(a) THEN a ELSE IF Truthy(b) THEN b ELSE c

Body(at, aT, At, rt, rT, Rt) ==
  [access_token |-> at, accessToken |-> aT, Access_token |-> At,
   refresh_token |-> rt, refreshToken |-> rT, Refresh_token |-> Rt]

U == Undefined

BackendBodies ==
  { Body(Token, U, U, Token, U, U),      \* snake_case pair
    Body(U, Token, U, U, Token, U),      \* camelCase pair
    Body(U, U, Token, U, U, Token),      \* Access_token / Refresh_token pair
    Body(U, Token, U, U, U, U),          \* access credential only
    Body(U, U, U, Token, U, U),          \* refresh credential only
    Body(U, U, U, U, U, U) }             \* no credential

BackendErrorStatuses == {401, 500}

BackendReplies ==
  [kind : {"data"}, status : {200}, body : BackendBodies]
    \cup [kind : {"error"}, status : BackendErrorStatuses, body : {Body(U, U, U, U, U, U)}]
    \cup [kind : {"unreachable"}, status : {0}, body : {Body(U, U, U, U, U, U)}]

\* What a route handler hands back: the response, the jar once the response's
\* Set-Cookie headers are applied, whether it wrote cookies (and the writes
\* it made through setAuthCookies / clearAuthCookies), and whether it called
\* the backend.
Response(status, message, jar, wrote, called) ==
  [status |-> status, message |-> message, jar |-> jar, wrote |-> wrote,
   called |-> called, writes |-> IF wrote THEN WritesOf(jar) ELSE << >>]

\* catch (error) of the sign-in and sign-up handlers: error.response?.status || 500
ErrorStatus(reply) == IF reply.kind = "error" THEN reply.status ELSE 500

(***************************************************************************)
(* POST /api/auth/signin                                                   *)
(***************************************************************************)
SigninPOST(body, reply, jar) ==
  IF Blank(body.email) \/ Blank(body.password)
  THEN Response(400, "Email and password are required", jar, FALSE, FALSE)
  ELSE IF reply.kind # "data"
  THEN Response(ErrorStatus(reply), "Signin failed", jar, FALSE, TRUE)
  ELSE LET accessToken == reply.body.access_token
           refreshToken == reply.body.refresh_token
       IN IF ~Truthy(accessToken) \/ ~Truthy(refreshToken)
          THEN Response(500, "Authentication failed - no tokens received from backend",
                        jar, FALSE, TRUE)
          ELSE Response(200, "Signin successful",
                        setAuthCookies(accessToken, refreshToken), TRUE, TRUE)

\* The variant of the handler that does not validate the tokens.
SigninPOSTUnvalidated(body, reply, jar) ==
  IF Blank(body.email) \/ Blank(body.password)
  THEN Response(400, "Email and password are required", jar, FALSE, FALSE)
  ELSE IF reply.kind # "data"
  THEN Response(ErrorStatus(reply), "Signin failed", jar, FALSE, TRUE)
  ELSE Response(200, "Signin successful",
                setAuthCookies(reply.body.accessToken, reply.body.refreshToken),
                TRUE, TRUE)

(***************************************************************************)
(* POST /api/auth/signup                                                   *)
(***************************************************************************)
\* A handler that hands the body to the backend before looking at it.
SignupPOSTValidatesLate(body, reply, jar) ==
  IF reply.kind # "data"
  THEN Response(ErrorStatus(reply), "Signup failed", jar, FALSE, TRUE)
  ELSE IF Blank(body.email) \/ Blank(body.password) \/ Blank(body.username)
  THEN Response(400, "Email, username, and password are required", jar, FALSE, TRUE)
  ELSE LET accessToken == Or3(reply.body.access_token, reply.body.accessToken,
                              reply.body.Access_token)
           refreshToken == Or3(reply.body.refresh_token, reply.body.refreshToken,
                               reply.body.Refresh_token)
       IN IF ~Truthy(accessToken) \/ ~Truthy(refreshToken)
          THEN Response(500, "Signup failed - no tokens received from backend",
                        jar, FALSE, TRUE)
          ELSE Response(201, "Signup successful",
                        setAuthCookies(accessToken, refreshToken), TRUE, TRUE)

SignupPOST(body, reply, jar) ==
  IF Blank(body.email) \/ Blank(body.password) \/ Blank(body.username)
  THEN Response(400, "Email, username, and password are required", jar, FALSE, FALSE)
  ELSE IF reply.kind # "data"
  THEN Response(ErrorStatus(reply), "Signup failed", jar, FALSE, TRUE)
  ELSE LET accessToken == Or3(reply.body.access_token, reply.body.accessToken,
                              reply.body.Access_token)
           refreshToken == Or3(reply.body.refresh_token, reply.body.refreshToken,
                               reply.body.Refresh_token)
       IN IF ~Truthy(accessToken) \/ ~Truthy(refreshToken)
          THEN Response(500, "Signup failed - no tokens received from backend",
                        jar, FALSE, TRUE)
          ELSE Response(201, "Signup successful",
                        setAuthCookies(accessToken, refreshToken), TRUE, TRUE)

(***************************************************************************)
(* POST /api/auth/refresh.  `sent` is the refreshToken cookie carried by  *)
(* the request.                                                            *)
(***************************************************************************)
RefreshPOST(sent, reply, jar) ==
  IF ~Truthy(sent)
  THEN Response(401, NoRefreshTokenMsg, clearAuthCookies, TRUE, FALSE)
  ELSE IF reply.kind # "data"
  THEN Response(401, SessionExpiredMsg, clearAuthCookies, TRUE, TRUE)
  ELSE LET accessToken == Or3(reply.body.access_token, reply.body.accessToken,
                              reply.body.Access_token)
           newRefreshToken == Or3(reply.body.refresh_token, reply.body.refreshToken,
                                  reply.body.Refresh_token)
       IN IF ~Truthy(accessToken) \/ ~Truthy(newRefreshToken)
          THEN Response(500, NoTokensMsg, clearAuthCookies, TRUE, TRUE)
          ELSE Response(200, "Token refreshed successfully",
                        setAuthCookies(accessToken, newRefreshToken), TRUE, TRUE)

\* The variant of the handler that does not validate the tokens.
RefreshPOSTUnvalidated(sent, reply, jar) ==
  IF ~Truthy(sent)
  THEN Response(401, NoRefreshTokenMsg, clearAuthCookies, TRUE, FALSE)
  ELSE IF reply.kind # "data"
  THEN Response(401, SessionExpiredMsg, clearAuthCookies, TRUE, TRUE)
  ELSE Response(200, "Token refreshed successfully",
                setAuthCookies(reply.body.accessToken, reply.body.refreshToken),
                TRUE, TRUE)

(***************************************************************************)
(* POST /api/auth/logout: whatever the backend answers (to the logout     *)
(* call, and to the refresh and the retry after a 401), the handler ends  *)
(* with clearAuthCookies() and status 200.  The backend is called when a  *)
(* token cookie came with the request.                                     *)
(***************************************************************************)
\* a || b
Or2(a, b) == IF Truthy(a) THEN a ELSE b

\* No call was made, so no reply came.
NoReply == [kind |-> "none", status |-> 0, body |-> Body(U, U, U, U, U, U)]

\* The backend's answers to the calls of the logout handler, in order: to
\* the invalidate-session call (kind, status, body); after a 401 to the
\* refresh call; after a refresh that answered, to the retried
\* invalidate-session call.
LogoutBackendReplies ==
  { [kind |-> r.kind, status |-> r.status, body |-> r.body, refresh |-> f, retry |-> t] :
      r \in BackendReplies \ [kind : {"error"}, status : {401}, body : {Body(U, U, U, U, U, U)}],
      f \in {NoReply}, t \in {NoReply} }
  \cup
  { [kind |-> "error", status |-> 401, body |-> Body(U, U, U, U, U, U),
     refresh |-> f, retry |-> t] :
      f \in {r \in BackendReplies : r.kind # "data"}, t \in {NoReply} }
  \cup
  { [kind |-> "error", status |-> 401, body |-> Body(U, U, U, U, U, U),
     refresh |-> f, retry |-> t] :
      f \in {r \in BackendReplies : r.kind = "data"}, t \in BackendReplies }

\* The jar as the handler has written it when, after a 401 from the
\* invalidate-session call, the refresh call returned.
LogoutRefreshed(sent, reply, jar) ==
  LET newAccessToken == Or2(reply.refresh.body.access_token, reply.refresh.body.accessToken)
      newRefreshToken == Or2(reply.refresh.body.refresh_token, reply.refresh.body.refreshToken)
  IN IF Truthy(newAccessToken) /\ Truthy(newRefreshToken)
     THEN [accessToken |-> newAccessToken, accessMaxAge |-> 15 * 60,
           refreshToken |-> newRefreshToken, refreshMaxAge |-> 7 * 24 * 60 * 60]
     ELSE jar

\* cookieStore.set on a jar: a later write of a name replaces the earlier.
Overwrite(jar, written) == written

\* The options of the logout route's own setCookie helper.
logoutCookieOptions == [httpOnly |-> TRUE, sameSite |-> "lax", path |-> "/"]

\* The logout route's own setCookie(name, value, {maxAge}).
logoutSetCookie(name, value, maxAge) == CookieWrite(name, value, logoutCookieOptions, maxAge)

\* The writes the handler makes when, after a 401 from the
\* invalidate-session call, the refresh call returned a pair.
LogoutRefreshedWrites(reply) ==
  LET newAccessToken == Or2(reply.refresh.body.access_token, reply.refresh.body.accessToken)
      newRefreshToken == Or2(reply.refresh.body.refresh_token, reply.refresh.body.refreshToken)
  IN IF Truthy(newAccessToken) /\ Truthy(newRefreshToken)
     THEN << logoutSetCookie("accessToken", newAccessToken, 15 * 60),
             logoutSetCookie("refreshToken", newRefreshToken, 7 * 24 * 60 * 60) >>
     ELSE << >>

\* A handler that returns after the retried call without clearing.
LogoutPOSTKeepsRefreshed(sent, reply, jar) ==
  LET hasToken == Truthy(sent.accessToken) \/ Truthy(sent.refreshToken)
      refreshed == hasToken /\ reply.kind = "error" /\ reply.status = 401
                     /\ reply.refresh.kind = "data"
  IN Response(200, "Logout successful",
              IF refreshed THEN LogoutRefreshed(sent, reply, jar)
              ELSE Overwrite(jar, clearAuthCookies),
              TRUE, hasToken)

LogoutPOST(sent, reply, jar) ==
  LET hasToken == Truthy(sent.accessToken) \/ Truthy(sent.refreshToken)
      refreshed == hasToken /\ reply.kind = "error" /\ reply.status = 401
                     /\ reply.refresh.kind = "data"
      written == IF refreshed THEN LogoutRefreshed(sent, reply, jar) ELSE jar
      earlier == IF refreshed THEN LogoutRefreshedWrites(reply) ELSE << >>
  IN [Response(200, "Logout successful", Overwrite(written, clearAuthCookies), TRUE, hasToken)
        EXCEPT !.writes = earlier \o @]

\* The earlier variant calls the backend only with an access token.
LogoutPOSTEarlier(sent, reply, jar) ==
  Response(200, "Logout successful", clearAuthCookies, TRUE, Truthy(sent.accessToken))

(***************************************************************************)
(* Refresh Coordinator (lib/api.ts)                                        *)
(***************************************************************************)
InQueue == {failedRequestsQueue[i] : i \in DOMAIN failedRequestsQueue}

\* A drain that settles only the first entry and forgets the others.
processQueueFirstOnly(error) ==
  [c \in Calls |->
    IF failedRequestsQueue # <<>> /\ c = Head(failedRequestsQueue)
    THEN IF error # NoErr
         THEN [pc |-> "rejected", err |-> error, sends |-> sends[c]]
         ELSE [pc |-> "inflight", err |-> err[c], sends |-> sends[c] + 1]
    ELSE [pc |-> pc[c], err |-> err[c], sends |-> sends[c]]]

\* A drain that empties the queue without settling its entries.
processQueueForgets(error) ==
  [c \in Calls |-> [pc |-> pc[c], err |-> err[c], sends |-> sends[c]]]

\* processQueue(error): every entry is rejected with error or resolved; a
\* resolved entry's .then dispatches apiClient(originalRequest) again.
\* Gives each call's pc, err and sends after the drain.
processQueue(error) ==
  [c \in Calls |->
    IF c \in InQueue
    THEN IF error # NoErr
         THEN [pc |-> "rejected", err |-> error, sends |-> sends[c]]
         ELSE [pc |-> "inflight", err |-> err[c], sends |-> sends[c] + 1]
    ELSE [pc |-> pc[c], err |-> err[c], sends |-> sends[c]]]

\* Response interceptor, success handler: the response passes through.
Respond2xx(c) ==
  /\ pc[c] = "inflight"
  /\ pc' = [pc EXCEPT ![c] = "resolved"]
  /\ UNCHANGED <<cookies, isRefreshing, failedRequestsQueue, retry, isRefreshUrl,
                 sends, err, sentRefresh, refreshCalls, logoutCalls, navCount, resp, gate, guard, storeVars>>

\* Error handler, status other than 401 (500) or no response (0):
\* the guard of line 130 fails, the error is passed through.
NonAuthStatuses == {500, 0}

\* A pass-through that also resets the flag.
PassThroughResetsFlag(c, status) ==
  /\ pc' = [pc EXCEPT ![c] = "rejected"]
  /\ err' = [err EXCEPT ![c] = AxiosError("call", status, "")]
  /\ isRefreshing' = FALSE
  /\ UNCHANGED <<cookies, failedRequestsQueue, retry, isRefreshUrl,
                 sends, sentRefresh, refreshCalls, logoutCalls, navCount, resp, gate, guard, storeVars>>

PassThrough(c, status) ==
  /\ pc' = [pc EXCEPT ![c] = "rejected"]
  /\ err' = [err EXCEPT ![c] = AxiosError("call", status, "")]
  /\ UNCHANGED <<cookies, isRefreshing, failedRequestsQueue, retry, isRefreshUrl,
                 sends, sentRefresh, refreshCalls, logoutCalls, navCount, resp, gate, guard, storeVars>>

RespondError(c, status) ==
  /\ pc[c] = "inflight"
  /\ status \in NonAuthStatuses
  /\ PassThrough(c, status)

\* A refresh-url branch that resets the flag and leaves the queue alone.
RefreshUrlBranchKeepsQueue(c) ==
  /\ isRefreshing' = FALSE
  /\ pc' = [pc EXCEPT ![c] = "loggingOut"]
  /\ err' = [err EXCEPT ![c] = AxiosError("call", 401, "")]
  /\ logoutCalls' = logoutCalls + 1
  /\ UNCHANGED <<cookies, failedRequestsQueue, retry, isRefreshUrl, sends, sentRefresh,
                 refreshCalls, navCount, resp, gate, guard, storeVars>>

\* 401 on the call that is itself a renewal request (url includes
\* '/auth/refresh'): flag reset, queue rejected, logout awaited.
RefreshUrlBranch(c) ==
  LET q == processQueue(SessionExpiredError) IN
  /\ isRefreshing' = FALSE
  /\ failedRequestsQueue' = <<>>
  /\ pc' = [d \in Calls |-> IF d = c THEN "loggingOut" ELSE q[d].pc]
  /\ err' = [d \in Calls |-> IF d = c THEN AxiosError("call", 401, "") ELSE q[d].err]
  /\ sends' = [d \in Calls |-> q[d].sends]
  /\ logoutCalls' = logoutCalls + 1
  /\ UNCHANGED <<cookies, retry, isRefreshUrl, sentRefresh, refreshCalls, navCount,
                 resp, gate, guard, storeVars>>

\* 401 while a renewal is in progress: the caller is parked in the queue.
QueueBranch(c) ==
  /\ failedRequestsQueue' = Append(failedRequestsQueue, c)
  /\ pc' = [pc EXCEPT ![c] = "queued"]
  /\ UNCHANGED <<cookies, isRefreshing, retry, isRefreshUrl, sends, err,
                 sentRefresh, refreshCalls, logoutCalls, navCount, resp, gate, guard, storeVars>>

\* First 401 of an expiry window: mark the call, set the flag, dispatch the
\* renewal with plain axios (the request carries the jar's refresh cookie).
StartRenewal(c) ==
  /\ retry' = [retry EXCEPT ![c] = TRUE]
  /\ isRefreshing' = TRUE
  /\ refreshCalls' = refreshCalls + 1
  /\ sentRefresh' = [sentRefresh EXCEPT ![c] = cookies.refreshToken]
  /\ pc' = [pc EXCEPT ![c] = "refreshing"]
  /\ UNCHANGED <<cookies, failedRequestsQueue, isRefreshUrl, sends, err,
                 logoutCalls, navCount, resp, gate, guard, storeVars>>

\* An error handler without the isRefreshing check.
Handle401NoFlagCheck(c) ==
  IF ~retry[c]
  THEN IF isRefreshUrl[c] THEN RefreshUrlBranch(c) ELSE StartRenewal(c)
  ELSE PassThrough(c, 401)

\* The error handler on a 401 response.
Handle401(c) ==
  IF ~retry[c]
  THEN IF isRefreshUrl[c] THEN RefreshUrlBranch(c)
       ELSE IF isRefreshing THEN QueueBranch(c)
       ELSE StartRenewal(c)
  ELSE PassThrough(c, 401)

Respond401(c) ==
  /\ pc[c] = "inflight"
  /\ Handle401(c)

\* The renewal succeeded: flag cleared, queue resolved, original call replayed.
RenewalSuccess(c, r) ==
  LET q == processQueue(NoErr) IN
  /\ cookies' = r.jar
  /\ isRefreshing' = FALSE
  /\ failedRequestsQueue' = <<>>
  /\ pc' = [d \in Calls |-> IF d = c THEN "inflight" ELSE q[d].pc]
  /\ err' = [d \in Calls |-> q[d].err]
  /\ sends' = [d \in Calls |-> IF d = c THEN sends[c] + 1 ELSE q[d].sends]
  /\ sentRefresh' = [sentRefresh EXCEPT ![c] = Absent]
  /\ UNCHANGED <<retry, isRefreshUrl, refreshCalls, logoutCalls, navCount, resp, gate, guard, storeVars>>

\* A failure path that resolves the queue, as the success path does.
RenewalFailureReplays(c, jar, refreshError) ==
  LET q == processQueue(NoErr) IN
  /\ cookies' = jar
  /\ isRefreshing' = FALSE
  /\ failedRequestsQueue' = <<>>
  /\ pc' = [d \in Calls |-> IF d = c THEN "loggingOut" ELSE q[d].pc]
  /\ err' = [d \in Calls |-> IF d = c THEN refreshError ELSE q[d].err]
  /\ sends' = [d \in Calls |-> q[d].sends]
  /\ sentRefresh' = [sentRefresh EXCEPT ![c] = Absent]
  /\ logoutCalls' = logoutCalls + 1
  /\ UNCHANGED <<retry, isRefreshUrl, refreshCalls, navCount, resp, gate, guard, storeVars>>

\* The renewal failed with refreshError: flag cleared, queue rejected with
\* refreshError, logout awaited.
RenewalFailure(c, jar, refreshError) ==
  LET q == processQueue(refreshError) IN
  /\ cookies' = jar
  /\ isRefreshing' = FALSE
  /\ failedRequestsQueue' = <<>>
  /\ pc' = [d \in Calls |-> IF d = c THEN "loggingOut" ELSE q[d].pc]
  /\ err' = [d \in Calls |-> IF d = c THEN refreshError ELSE q[d].err]
  /\ sends' = [d \in Calls |-> q[d].sends]
  /\ sentRefresh' = [sentRefresh EXCEPT ![c] = Absent]
  /\ logoutCalls' = logoutCalls + 1
  /\ UNCHANGED <<retry, isRefreshUrl, refreshCalls, navCount, resp, gate, guard, storeVars>>

\* The renewal request reached the route handler and its response arrived.
RefreshResponds(c) ==
  /\ pc[c] = "refreshing"
  /\ \E r \in {RefreshPOST(sentRefresh[c], reply, cookies) : reply \in BackendReplies} :
       IF r.status = 200
       THEN RenewalSuccess(c, r)
       ELSE RenewalFailure(c, r.jar, AxiosError("refresh", r.status, r.message))

\* The renewal request got no response (network error, timeout).
RefreshNetworkError(c) ==
  /\ pc[c] = "refreshing"
  /\ RenewalFailure(c, cookies, AxiosError("refresh", 0, "Network Error"))

\* A teardown that rejects the caller without navigating.
AfterLogoutNoRedirect(c, jar) ==
  /\ cookies' = jar
  /\ pc' = [pc EXCEPT ![c] = "rejected"]
  /\ UNCHANGED <<isRefreshing, failedRequestsQueue, retry, isRefreshUrl, sends,
                 err, sentRefresh, refreshCalls, logoutCalls, navCount, resp, gate, guard, storeVars>>

\* After the awaited logout: navigate to /signin and reject the caller.
AfterLogout(c, jar) ==
  /\ cookies' = jar
  /\ navCount' = navCount + 1
  /\ pc' = [pc EXCEPT ![c] = "rejected"]
  /\ UNCHANGED <<isRefreshing, failedRequestsQueue, retry, isRefreshUrl, sends,
                 err, sentRefresh, refreshCalls, logoutCalls, resp, gate, guard, storeVars>>

\* The coordinator's logout request was served by the route handler.
LogoutResponds(c) ==
  /\ pc[c] = "loggingOut"
  /\ \E r \in {LogoutPOST(cookies, reply, cookies) : reply \in LogoutBackendReplies} :
       AfterLogout(c, r.jar)

\* A logout failure that is not caught: the caller is rejected with it and
\* the navigation is skipped.
LogoutNetworkErrorUncaught(c) ==
  /\ pc[c] = "loggingOut"
  /\ pc' = [pc EXCEPT ![c] = "rejected"]
  /\ err' = [err EXCEPT ![c] = AxiosError("logout", 0, "Network Error")]
  /\ UNCHANGED <<cookies, isRefreshing, failedRequestsQueue, retry, isRefreshUrl, sends,
                 sentRefresh, refreshCalls, logoutCalls, navCount, resp, gate, guard, storeVars>>

\* The coordinator's logout request got no response: the error is caught.
LogoutNetworkError(c) ==
  /\ pc[c] = "loggingOut"
  /\ AfterLogout(c, cookies)

(***************************************************************************)
(* Route handlers served one request at a time: the request carries the   *)
(* jar, the response's cookies replace it.                                 *)
(***************************************************************************)
E1 == <<"a", "@", "b">>

E2 == <<"c", "d">>

NoText == <<>>

Password == <<"p", "w">>

Username == <<"a", "b">>

SignInInputs ==
  { [email |-> E1, username |-> NoText, password |-> Password],
    [email |-> E2, username |-> NoText, password |-> Password],
    [email |-> E1, username |-> NoText, password |-> NoText] }

SignUpInputs ==
  { [email |-> E1, username |-> Username, password |-> Password],
    [email |-> E2, username |-> NoText, password |-> Password],
    [email |-> NoText, username |-> Username, password |-> Password] }

NoInput == [email |-> NoText, username |-> NoText, password |-> NoText]

\* The JSON bodies a sign-in request can carry: what the form submits, and
\* bodies with the email, or both fields, missing or empty.
SignInBodies ==
  SignInInputs \cup { [email |-> NoText, username |-> NoText, password |-> Password],
                      NoInput }

\* The JSON bodies a sign-up request can carry.
SignUpBodies ==
  SignUpInputs \cup { [email |-> E1, username |-> Username, password |-> NoText],
                      NoInput }

NoResp == [route |-> "none", body |-> NoInput, sent |-> clearAuthCookies, status |-> 0,
           message |-> "", wrote |-> FALSE, called |-> FALSE, reply |-> NoReply,
           writes |-> << >>]

\* What is known of a served request: its route, body and cookies, the
\* backend's reply to the handler, and the handler's response.
Served(route, body, reply, r) ==
  [route |-> route, body |-> body, sent |-> cookies, status |-> r.status,
   message |-> r.message, wrote |-> r.wrote, called |-> r.called,
   reply |-> IF r.called THEN reply ELSE NoReply, writes |-> r.writes]

\* The handler of `route` served a request with `body` and the jar's cookies.
RouteDone(route, body, reply, r) ==
  /\ cookies' = r.jar
  /\ resp' = Served(route, body, reply, r)
  /\ UNCHANGED <<coordVars, gate, guard, storeVars>>

SigninRequest ==
  \E body \in SignInBodies, reply \in BackendReplies :
    RouteDone("signin", body, reply, SigninPOST(body, reply, cookies))

SigninRequestUnvalidated ==
  \E body \in SignInBodies, reply \in BackendReplies :
    RouteDone("signin", body, reply, SigninPOSTUnvalidated(body, reply, cookies))

SignupRequest ==
  \E body \in SignUpBodies, reply \in BackendReplies :
    RouteDone("signup", body, reply, SignupPOST(body, reply, cookies))

RefreshRequest ==
  \E reply \in BackendReplies :
    RouteDone("refresh", NoInput, reply, RefreshPOST(cookies.refreshToken, reply, cookies))

RefreshRequestUnvalidated ==
  \E reply \in BackendReplies :
    RouteDone("refresh", NoInput, reply, RefreshPOSTUnvalidated(cookies.refreshToken, reply, cookies))

LogoutRequest ==
  \E reply \in LogoutBackendReplies :
    RouteDone("logout", NoInput, reply, LogoutPOST(cookies, reply, cookies))

LogoutRequestEarlier ==
  \E reply \in LogoutBackendReplies :
    RouteDone("logout", NoInput, reply, LogoutPOSTEarlier(cookies, reply, cookies))

\* The browser drops a cookie when its max-age has elapsed: the access
\* cookie (900 s) before the refresh cookie (604800 s) written with it.
MaxAgeElapses ==
  /\ \/ /\ cookies.accessToken # Absent
        /\ cookies' = [cookies EXCEPT !.accessToken = Absent]
     \/ /\ cookies.accessToken = Absent
        /\ cookies.refreshToken # Absent
        /\ cookies' = [cookies EXCEPT !.refreshToken = Absent]
  /\ resp' = NoResp
  /\ UNCHANGED <<coordVars, gate, guard, storeVars>>

(***************************************************************************)
(* Session State Store (context/AuthContext)                               *)
(***************************************************************************)
\* Number of signUp / signIn / logout calls that may be in flight together.
NumOps == 2

OpIds == 1..NumOps

Null == [present |-> FALSE, email |-> NoText, username |-> NoText]

Identity(email, username) == [present |-> TRUE, email |-> email, username |-> username]

Idle == [kind |-> "idle", data |-> NoInput]

NoneCompleted == [op |-> "none", outcome |-> "none", status |-> 0]

\* email.split('@')[0]
RECURSIVE BeforeAt(_)
BeforeAt(text) ==
  IF text = <<>> THEN <<>>
  ELSE IF Head(text) = "@" THEN <<>>
  ELSE <<Head(text)>> \o BeforeAt(Tail(text))

\* defaultCookieOptions.httpOnly
HttpOnly == TRUE

\* document.cookie: the names of the cookies a script can read.
DocumentCookie(jar) ==
  {name \in {"accessToken", "refreshToken"} : jar[name] # Absent /\ ~HttpOnly}

\* value.isAuthenticated: !!user
isAuthenticated == user.present

\* The DashboardPage effect has not run since the page was mounted.
NeverRan == [ran |-> FALSE, isLoading |-> TRUE, isAuthenticated |-> FALSE]

\* The effect ran with these dependencies [isLoading, isAuthenticated, router].
RanWith(loading, authenticated) ==
  [ran |-> TRUE, isLoading |-> loading, isAuthenticated |-> authenticated]

\* The router shows the page at target: the page stays mounted when it is the
\* one already shown, and is mounted anew otherwise.
PageShown(target) == IF target = location THEN guard ELSE NeverRan

\* axios resolves for a 2xx status and throws otherwise.
Is2xx(status) == status >= 200 /\ status < 300

\* checkAuth (on mount, and refreshAuth)
checkAuth ==
  /\ LET hasAuth == "accessToken" \in DocumentCookie(cookies) IN
       IF hasAuth
       THEN IF localUser.present
            THEN user' = localUser
            ELSE user' = Identity(<<"user@example.com">>, <<"User">>)
       ELSE user' = user
  /\ isLoading' = FALSE
  /\ completed' = NoneCompleted
  /\ UNCHANGED <<cookies, coordVars, resp, gate, guard, localUser, location, ops>>

\* refreshAuth: await checkAuth()
refreshAuth == checkAuth

StartOp(o, kind, data) ==
  /\ ops[o] = Idle
  /\ isLoading' = TRUE
  /\ ops' = [ops EXCEPT ![o] = [kind |-> kind, data |-> data]]
  /\ completed' = NoneCompleted
  /\ UNCHANGED <<cookies, coordVars, resp, gate, guard, user, localUser, location>>

signUp(o) == \E data \in SignUpInputs : StartOp(o, "signUp", data)

signIn(o) == \E data \in SignInInputs : StartOp(o, "signIn", data)

logout(o) == StartOp(o, "logout", NoInput)

\* try-block continuation of signUp / signIn after the awaited request.
SignedIn(o, identity, status) ==
  /\ user' = identity
  /\ localUser' = identity
  /\ location' = DashboardPath
  /\ guard' = PageShown(DashboardPath)
  /\ isLoading' = FALSE
  /\ ops' = [ops EXCEPT ![o] = Idle]
  /\ completed' = [op |-> ops[o].kind, outcome |-> "fulfilled", status |-> status]

\* catch { throw error } finally { setIsLoading(false) } of signUp / signIn.
SignFailed(o, status) ==
  /\ isLoading' = FALSE
  /\ ops' = [ops EXCEPT ![o] = Idle]
  /\ completed' = [op |-> ops[o].kind, outcome |-> "rejected", status |-> status]
  /\ UNCHANGED <<user, localUser, location, guard>>

SignUpResponds(o) ==
  /\ ops[o].kind = "signUp"
  /\ \E reply \in BackendReplies :
       LET r == SignupPOST(ops[o].data, reply, cookies) IN
         /\ cookies' = r.jar
         /\ resp' = Served("signup", ops[o].data, reply, r)
         /\ IF Is2xx(r.status)
            THEN SignedIn(o, Identity(ops[o].data.email, ops[o].data.username), r.status)
            ELSE SignFailed(o, r.status)
  /\ UNCHANGED <<coordVars, gate>>

\* The sign-in request is served by either variant of the handler.
SignInResponds(o) ==
  /\ ops[o].kind = "signIn"
  /\ \E reply \in BackendReplies :
       \E r \in { SigninPOST(ops[o].data, reply, cookies),
                  SigninPOSTUnvalidated(ops[o].data, reply, cookies) } :
         /\ cookies' = r.jar
         /\ resp' = Served("signin", ops[o].data, reply, r)
         /\ IF Is2xx(r.status)
            THEN SignedIn(o, Identity(ops[o].data.email, BeforeAt(ops[o].data.email)),
                          r.status)
            ELSE SignFailed(o, r.status)
  /\ UNCHANGED <<coordVars, gate>>

\* The signUp / signIn request got no response.
SignNetworkError(o) ==
  /\ ops[o].kind \in {"signUp", "signIn"}
  /\ SignFailed(o, 0)
  /\ resp' = NoResp
  /\ UNCHANGED <<cookies, coordVars, gate>>

\* logout after the awaited request returned: try-block continuation.
LogoutTry(o, status) ==
  /\ user' = Null
  /\ localUser' = Null
  /\ location' = SigninPath
  /\ guard' = PageShown(SigninPath)
  /\ isLoading' = FALSE
  /\ ops' = [ops EXCEPT ![o] = Idle]
  /\ completed' = [op |-> "logout", outcome |-> "fulfilled", status |-> status]

\* A catch-block that rethrows as signUp and signIn do.
LogoutCatchRethrows(o, status) ==
  /\ isLoading' = FALSE
  /\ ops' = [ops EXCEPT ![o] = Idle]
  /\ completed' = [op |-> "logout", outcome |-> "rejected", status |-> status]
  /\ UNCHANGED <<user, localUser, location, guard>>

\* logout after the awaited request threw: catch-block, then finally.
LogoutCatch(o, status) ==
  /\ user' = Null
  /\ localUser' = Null
  /\ location' = SigninPath
  /\ guard' = PageShown(SigninPath)
  /\ isLoading' = FALSE
  /\ ops' = [ops EXCEPT ![o] = Idle]
  /\ completed' = [op |-> "logout", outcome |-> "fulfilled", status |-> status]

StoreLogoutResponds(o) ==
  /\ ops[o].kind = "logout"
  /\ \E r \in {LogoutPOST(cookies, reply, cookies) : reply \in LogoutBackendReplies}
                \cup {LogoutPOSTEarlier(cookies, reply, cookies) : reply \in LogoutBackendReplies} :
       /\ cookies' = r.jar
       /\ IF Is2xx(r.status) THEN LogoutTry(o, r.status) ELSE LogoutCatch(o, r.status)
  /\ UNCHANGED <<coordVars, resp, gate>>

\* The logout request failed at the network level (0), or the handler's
\* outer catch answered 500 after the cookie store threw (nothing cleared).
LogoutErrorStatuses == {0, 500}

StoreLogoutFails(o) ==
  /\ ops[o].kind = "logout"
  /\ \E status \in LogoutErrorStatuses : LogoutCatch(o, status)
  /\ UNCHANGED <<cookies, coordVars, resp, gate>>

(***************************************************************************)
(* Route Gate (proxy.ts, formerly middleware.ts)                           *)
(***************************************************************************)
AUTH_ROUTES == {SigninPath, SignupPath}

PROTECTED_ROUTES == {DashboardPath}

\* pathname.startsWith(route)
startsWith(pathname, route) ==
  /\ Len(route) <= Len(pathname)
  /\ SubSeq(pathname, 1, Len(route)) = route

\* NextResponse.redirect(url), url carrying callbackUrl when one was set.
Redirect(to, callbackUrl) == [kind |-> "redirect", to |-> to, callbackUrl |-> callbackUrl]

\* NextResponse.next()
PassPage == [kind |-> "next", to |-> NoPath, callbackUrl |-> NoPath]

\* A gate that sends every request for a protected page to sign-in.
proxyProtectsAlways(pathname, accessToken) ==
  LET gateAuthenticated == Truthy(accessToken) IN
    IF gateAuthenticated /\ pathname \in AUTH_ROUTES
    THEN Redirect(DashboardPath, NoPath)
    ELSE IF \E route \in PROTECTED_ROUTES : startsWith(pathname, route)
    THEN Redirect(SigninPath, pathname)
    ELSE PassPage

\* proxy(request): accessToken is request.cookies.get('accessToken')?.value,
\* which is falsy when the cookie is absent and when it carries no value.
proxy(pathname, accessToken) ==
  LET gateAuthenticated == Truthy(accessToken) IN
    IF gateAuthenticated /\ pathname \in AUTH_ROUTES
    THEN Redirect(DashboardPath, NoPath)
    ELSE IF ~gateAuthenticated /\ \E route \in PROTECTED_ROUTES : startsWith(pathname, route)
    THEN Redirect(SigninPath, pathname)
    ELSE PassPage

\* The pages a browser asks for.
Paths ==
  { RootPath, SigninPath, SignupPath, DashboardPath,
    <<"/dashboard", "/profile">>, <<"/dashboard", "x">>, <<"/signin", "/help">>,
    <<"/about">> }

NoGate == [pathname |-> NoPath, cookie |-> Absent, decision |-> PassPage]

\* The browser requests the page at pathname with the jar's cookies; the
\* proxy decides before any page code runs, and the browser shows the page
\* it is sent to.
Navigate(pathname) ==
  /\ \A o \in OpIds : ops[o] = Idle
  /\ LET decision == proxy(pathname, cookies.accessToken) IN
       /\ gate' = [pathname |-> pathname, cookie |-> cookies.accessToken,
                   decision |-> decision]
       /\ location' = IF decision.kind = "redirect" THEN decision.to ELSE pathname
       /\ guard' = PageShown(IF decision.kind = "redirect" THEN decision.to ELSE pathname)
  /\ completed' = NoneCompleted
  /\ UNCHANGED <<cookies, coordVars, resp, user, isLoading, localUser, ops>>

(***************************************************************************)
(* DashboardPage (app/dashboard/page.tsx): the client-side guard.  The     *)
(* effect runs after the page is mounted and after every render in which   *)
(* isLoading or isAuthenticated differs from the render before; it runs    *)
(* before the next event is handled.                                       *)
(***************************************************************************)
GuardDue ==
  /\ location = DashboardPath
  /\ guard # RanWith(isLoading, isAuthenticated)

\* A push after which the page shown is always mounted anew.
PushSigninRemounts ==
  LET decision == proxy(SigninPath, cookies.accessToken)
      target == IF decision.kind = "redirect" THEN decision.to ELSE SigninPath
  IN /\ gate' = [pathname |-> SigninPath, cookie |-> cookies.accessToken,
                 decision |-> decision]
     /\ location' = target
     /\ guard' = NeverRan

\* router.push('/signin'): the request passes the proxy; the page at the
\* resulting location is shown.
PushSignin ==
  LET decision == proxy(SigninPath, cookies.accessToken)
      target == IF decision.kind = "redirect" THEN decision.to ELSE SigninPath
  IN /\ gate' = [pathname |-> SigninPath, cookie |-> cookies.accessToken,
                 decision |-> decision]
     /\ location' = target
     /\ guard' = IF target = location
                 THEN RanWith(isLoading, isAuthenticated)
                 ELSE NeverRan

\* useEffect(() => { if (!isLoading && !isAuthenticated) router.push('/signin') },
\*           [isLoading, isAuthenticated, router])
DashboardGuard ==
  /\ GuardDue
  /\ IF ~isLoading /\ ~isAuthenticated
     THEN PushSignin
     ELSE /\ guard' = RanWith(isLoading, isAuthenticated)
          /\ UNCHANGED <<gate, location>>
  /\ UNCHANGED <<cookies, coordVars, resp, user, isLoading, localUser, ops, completed>>

\* window.location.href = '/signin' takes effect: the browser loads /signin
\* through the proxy and the new document mounts its AuthProvider (user
\* null, isLoading true); localStorage is kept.
ForcedNavigation ==
  /\ navCount > 0
  /\ gate = NoGate
  /\ LET decision == proxy(SigninPath, cookies.accessToken) IN
       /\ gate' = [pathname |-> SigninPath, cookie |-> cookies.accessToken,
                   decision |-> decision]
       /\ location' = IF decision.kind = "redirect" THEN decision.to ELSE SigninPath
  /\ guard' = NeverRan
  /\ user' = Null
  /\ isLoading' = TRUE
  /\ ops' = [o \in OpIds |-> Idle]
  /\ completed' = NoneCompleted
  /\ UNCHANGED <<cookies, coordVars, resp, localUser>>

(***************************************************************************)
(* Initial states.  The api module is freshly loaded (flag false, queue   *)
(* empty); the AuthProvider is freshly mounted (user null, isLoading      *)
(* true).  The jar holds a session (both cookies), a session whose access *)
(* cookie has expired, or nothing.                                         *)
(***************************************************************************)
InitialJars ==
  { setAuthCookies(Token, Token), setAuthCookies(Absent, Token), clearAuthCookies }

CoordinatorLoaded ==
  /\ isRefreshing = FALSE
  /\ failedRequestsQueue = <<>>
  /\ retry = [c \in Calls |-> FALSE]
  /\ sends = [c \in Calls |-> 1]
  /\ err = [c \in Calls |-> NoErr]
  /\ sentRefresh = [c \in Calls |-> Absent]
  /\ refreshCalls = 0
  /\ logoutCalls = 0
  /\ navCount = 0

ProviderMounted ==
  /\ user = Null
  /\ isLoading = TRUE
  /\ localUser = Null
  /\ location = RootPath
  /\ ops = [o \in OpIds |-> Idle]
  /\ completed = NoneCompleted

\* NumCalls authorized calls have been dispatched through apiClient.
Init ==
  /\ cookies \in InitialJars
  /\ CoordinatorLoaded
  /\ pc = [c \in Calls |-> "inflight"]
  /\ isRefreshUrl \in [Calls -> BOOLEAN]
  /\ resp = NoResp
  /\ gate = NoGate
  /\ guard = NeverRan
  /\ ProviderMounted

Next ==
  \E c \in Calls :
    \/ Respond2xx(c)
    \/ \E status \in NonAuthStatuses : RespondError(c, status)
    \/ Respond401(c)
    \/ RefreshResponds(c)
    \/ RefreshNetworkError(c)
    \/ LogoutResponds(c)
    \/ LogoutNetworkError(c)

Spec == Init /\ [][Next]_vars

\* No authorized call is outstanding.
NoCalls ==
  /\ CoordinatorLoaded
  /\ pc = [c \in Calls |-> "resolved"]
  /\ isRefreshUrl = [c \in Calls |-> FALSE]

RouteInit ==
  /\ cookies \in InitialJars
  /\ NoCalls
  /\ resp = NoResp
  /\ gate = NoGate
  /\ guard = NeverRan
  /\ ProviderMounted

RouteNext ==
  \/ SigninRequest
  \/ SigninRequestUnvalidated
  \/ SignupRequest
  \/ RefreshRequest
  \/ RefreshRequestUnvalidated
  \/ LogoutRequest
  \/ LogoutRequestEarlier
  \/ MaxAgeElapses

RouteSpec == RouteInit /\ [][RouteNext]_vars

StoreInit ==
  /\ cookies \in InitialJars
  /\ NoCalls
  /\ resp = NoResp
  /\ gate = NoGate
  /\ guard = NeverRan
  /\ ProviderMounted

StoreNext ==
  \/ checkAuth
  \/ refreshAuth
  \/ \E o \in OpIds :
       \/ signUp(o)
       \/ signIn(o)
       \/ logout(o)
       \/ SignUpResponds(o)
       \/ SignInResponds(o)
       \/ SignNetworkError(o)
       \/ StoreLogoutResponds(o)
       \/ StoreLogoutFails(o)

StoreSpec == StoreInit /\ [][StoreNext]_vars

\* Page requests through the route gate, around sign-in.
GateNext ==
  \/ \E pathname \in Paths : Navigate(pathname)
  \/ \E o \in OpIds :
       \/ signIn(o)
       \/ SignInResponds(o)
       \/ SignNetworkError(o)

GateSpec == StoreInit /\ [][GateNext]_vars

\* Page requests and sign-in with the dashboard page's guard: a due effect
\* runs before anything else happens.
GuardNext ==
  \/ DashboardGuard
  \/ ~GuardDue /\ checkAuth
  \/ ~GuardDue /\ \E pathname \in Paths : Navigate(pathname)
  \/ ~GuardDue /\ signIn(1)
  \/ ~GuardDue /\ SignInResponds(1)
  \/ ~GuardDue /\ SignNetworkError(1)

GuardSpec == StoreInit /\ [][GuardNext]_vars

\* A signed-in user on the dashboard (signIn has stored the identity in the
\* state and in localStorage) whose page has dispatched NumCalls calls.
SignedInInit ==
  /\ cookies \in InitialJars
  /\ CoordinatorLoaded
  /\ pc = [c \in Calls |-> "inflight"]
  /\ isRefreshUrl \in [Calls -> BOOLEAN]
  /\ resp = NoResp
  /\ gate = NoGate
  /\ guard = NeverRan
  /\ user = Identity(E1, BeforeAt(E1))
  /\ isLoading = FALSE
  /\ localUser = Identity(E1, BeforeAt(E1))
  /\ location = DashboardPath
  /\ ops = [o \in OpIds |-> Idle]
  /\ completed = NoneCompleted

\* The coordinator's calls, the page load its forced sign-out causes, and
\* the check the new page runs on mount.
ForcedSignOutNext ==
  \/ Next
  \/ ForcedNavigation
  \/ gate # NoGate /\ checkAuth

ForcedSignOutSpec == SignedInInit /\ [][ForcedSignOutNext]_vars

\* One logout of the store at a time, while authorized calls, and the
\* renewals they start, are in flight.
LogoutRaceNext ==
  \/ Next
  \/ logout(1)
  \/ StoreLogoutResponds(1)
  \/ StoreLogoutFails(1)

LogoutRaceSpec == Init /\ [][LogoutRaceNext]_vars

(***************************************************************************)
(* Fairness: every network call eventually gets a response or fails.      *)
(***************************************************************************)
CallAnswered(c) ==
  \/ Respond2xx(c)
  \/ \E status \in NonAuthStatuses : RespondError(c, status)
  \/ Respond401(c)

RenewalAnswered(c) ==
  \/ RefreshResponds(c)
  \/ RefreshNetworkError(c)

LogoutAnswered(c) == LogoutResponds(c) \/ LogoutNetworkError(c)

FairSpec ==
  /\ Init
  /\ [][Next]_vars
  /\ \A c \in Calls :
       /\ WF_vars(CallAnswered(c))
       /\ WF_vars(RenewalAnswered(c))
       /\ WF_vars(LogoutAnswered(c))

(***************************************************************************)
(* Properties                                                              *)
(***************************************************************************)
NoRefreshUrlCalls == \A c \in Calls : ~isRefreshUrl[c]

\* No replayed call has failed: every 401 so far answered a first attempt.
NoReplayFailed == \A c \in Calls : sends[c] > 1 => pc[c] \in {"inflight", "resolved"}

\* C1 as stated: calls that fail with 401 on their first attempt, whenever
\* their 401 responses arrive, cause exactly one renewal exchange (here: as
\* long as no renewal has failed).
C1_ExactlyOneRenewal ==
  (NoRefreshUrlCalls /\ NoReplayFailed /\ logoutCalls = 0) => refreshCalls <= 1

\* C1 amended: a renewal is dispatched only by a 401 handled while the
\* Refresh-In-Progress flag is clear, one per such 401, and it sets the flag;
\* a 401 handled while the flag is set is queued and dispatches nothing.  So
\* the calls whose 401 responses arrive while the flag is set share the one
\* renewal of the call that set it.
C1_OneRenewalWhileFlagSet ==
  [][ /\ isRefreshing => refreshCalls' = refreshCalls
      /\ refreshCalls' # refreshCalls =>
           /\ refreshCalls' = refreshCalls + 1
           /\ isRefreshing'
           /\ \E c \in Calls : pc[c] = "inflight" /\ pc'[c] = "refreshing"
      /\ \A c \in Calls :
           /\ (pc[c] = "inflight" /\ pc'[c] = "queued") =>
                (isRefreshing /\ refreshCalls' = refreshCalls)
           /\ (pc[c] = "inflight" /\ pc'[c] = "refreshing") =>
                (~isRefreshing /\ refreshCalls' = refreshCalls + 1) ]_vars

\* All calls failed with 401 while one renewal was in flight, the renewal
\* succeeded and every call was replayed: one renewal exchange.
C1_Witness ==
  /\ NoRefreshUrlCalls
  /\ refreshCalls = 1
  /\ ~isRefreshing
  /\ \A c \in Calls : sends[c] = 2 /\ pc[c] = "inflight"
  /\ Cardinality({c \in Calls : retry[c]}) = 1

\* C2: a call is replayed at most once, and a call that was replayed never
\* starts a renewal nor waits in the queue again.
C2_NoSecondRetry ==
  \A c \in Calls :
    /\ sends[c] <= 2
    /\ pc[c] \in {"refreshing", "queued"} => sends[c] = 1

C4_RetriedCallForcesSignOut ==
  \A c \in Calls :
    (retry[c] /\ pc[c] = "rejected" /\ err[c] = AxiosError("call", 401, "")) =>
      (logoutCalls >= 1 /\ navCount >= 1)

\* C5: every caller parked by the coordinator eventually settles, and the
\* queue is eventually empty again.
C5_EventuallySettles ==
  /\ \A c \in Calls :
       (pc[c] \in {"queued", "refreshing", "loggingOut"}) ~>
         (pc[c] \in {"resolved", "rejected"})
  /\ (failedRequestsQueue # <<>>) ~> (failedRequestsQueue = <<>>)

\* All calls failed with 401, one renewal, every replay succeeded.
C5_Witness ==
  /\ refreshCalls = 1
  /\ failedRequestsQueue = <<>>
  /\ \A c \in Calls : sends[c] = 2 /\ pc[c] = "resolved"

\* C6: a handler that answers sign-in, sign-up or renewal with success
\* leaves both cookies in the jar, and a handler that wrote cookies never
\* leaves exactly one of them.
C6_CookiePairing ==
  /\ (resp.route \in {"signin", "signup", "refresh"} /\ Is2xx(resp.status)) => BothCookies
  /\ resp.wrote => (Has(cookies.accessToken) <=> Has(cookies.refreshToken))

\* C7: once logout() of the store has completed, neither cookie exists.
C7_NoCookiesAfterLogout ==
  completed.op = "logout" => NoCookies

\* C8: a call rejected with the renewal's 401 is rejected with the
\* "session expired" error.
C8_RejectedWithSessionExpired ==
  \A c \in Calls :
    (pc[c] = "rejected" /\ err[c].from = "refresh" /\ err[c].status = 401) =>
      err[c].message = SessionExpiredMsg

\* C9 as stated: calls that fail with 401 on their first attempt, whenever
\* their 401 responses arrive, cause at most one sign-out navigation.
C9_NavigateOnce ==
  (NoRefreshUrlCalls /\ NoReplayFailed) => navCount <= 1

\* The calls whose teardown (awaited logout, then navigation) has finished:
\* initiators of a failed renewal, and renewal-url calls answered 401.
TornDown ==
  {c \in Calls :
     /\ pc[c] = "rejected"
     /\ \/ retry[c] /\ err[c].from = "refresh"
        \/ isRefreshUrl[c] /\ err[c] = AxiosError("call", 401, "")}

\* C9 amended: there is exactly one navigation per failed renewal cycle,
\* triggered by the call that dispatched the renewal and never by a queued
\* caller; so calls that share one renewal cause one navigation.
C9_OneNavigationPerFailedCycle ==
  /\ navCount = Cardinality(TornDown)
  /\ (NoRefreshUrlCalls /\ refreshCalls <= 1) => navCount <= 1

\* One renewal failed with every other call queued behind it: one navigation.
C9_Witness ==
  /\ NoRefreshUrlCalls
  /\ refreshCalls = 1
  /\ navCount = 1
  /\ \A c \in Calls : pc[c] = "rejected" /\ err[c].from = "refresh"

\* C10: when logout() completes, the identity is null, the cached identity
\* is gone, isLoading is false, the router was sent to /signin and the
\* caller's promise is fulfilled.
C10_LogoutAlwaysEnds ==
  completed.op = "logout" =>
    /\ user = Null
    /\ ~isAuthenticated
    /\ localUser = Null
    /\ ~isLoading
    /\ location = SigninPath
    /\ completed.outcome = "fulfilled"

\* logout() completed although its request got no response, with the
\* session cookies still in the jar.
C10_Witness ==
  /\ completed.op = "logout"
  /\ completed.status = 0
  /\ BothCookies
  /\ user = Null

(***************************************************************************)
(* Route gate and callback                                                 *)
(***************************************************************************)
\* The decision the rule table gives for a path and the presence of the
\* access cookie.
RuleTable(pathname, present) ==
  IF present /\ pathname \in AUTH_ROUTES
  THEN Redirect(DashboardPath, NoPath)
  ELSE IF ~present /\ \E route \in PROTECTED_ROUTES : startsWith(pathname, route)
  THEN Redirect(SigninPath, pathname)
  ELSE PassPage

\* C11: the route gate's decision is the rule table's decision for the
\* requested path and the presence of the access cookie, whatever the
\* cookie's value: auth-only path with cookie -> /dashboard; protected path
\* without cookie -> /signin with callbackUrl = path; else pass through.
C11_RuleTable ==
  gate # NoGate => gate.decision = RuleTable(gate.pathname, gate.cookie # Absent)

\* C12: after a request to a protected path P was redirected to sign-in with
\* callbackUrl = P, a sign-in that succeeds leaves the browser at exactly P.
C12_CallbackRoundTrip ==
  ( /\ completed.op = "signIn"
    /\ completed.outcome = "fulfilled"
    /\ gate.decision.kind = "redirect"
    /\ gate.decision.callbackUrl # NoPath )
  => location = gate.decision.callbackUrl

(***************************************************************************)
(* Sign-up and sign-in                                                     *)
(***************************************************************************)
\* The backend's reply carries an access and a refresh credential.
CredentialPair(reply) ==
  /\ reply.kind = "data"
  /\ Truthy(Or3(reply.body.access_token, reply.body.accessToken, reply.body.Access_token))
  /\ Truthy(Or3(reply.body.refresh_token, reply.body.refreshToken, reply.body.Refresh_token))

\* The identity the store derives from the submitted data.
Derived(op, data) ==
  IF op = "signUp"
  THEN Identity(data.email, data.username)
  ELSE Identity(data.email, BeforeAt(data.email))

SessionEstablished(op) ==
  /\ Has(cookies.accessToken) /\ cookies.accessMaxAge = 900
  /\ Has(cookies.refreshToken) /\ cookies.refreshMaxAge = 604800
  /\ isAuthenticated
  /\ user = Derived(op, resp.body)

\* C13: after a sign-up or sign-in for which the backend returned a
\* credential pair, the access cookie is set with max-age 900, the refresh
\* cookie with max-age 604800, and the store reports isAuthenticated with the
\* identity derived from the submitted data.
C13_SessionEstablished ==
  ( /\ completed.op \in {"signUp", "signIn"}
    /\ resp.called
    /\ CredentialPair(resp.reply) )
  => SessionEstablished(completed.op)

\* The sign-up half of the statement.
SignUpSessionEstablished ==
  ( /\ completed.op = "signUp"
    /\ resp.called
    /\ CredentialPair(resp.reply) )
  => SessionEstablished(completed.op)

\* The signUp / signIn call o ends in this step with its request failed
\* (an error status, or no response).
SignRequestFails(o) ==
  /\ ops[o].kind \in {"signUp", "signIn"}
  /\ ops'[o] = Idle
  /\ ~Is2xx(resp'.status)

\* C14: when the request of signUp or signIn fails, the store is left
\* unauthenticated whatever it was before, isLoading is false, the browser
\* is not sent anywhere, and the call rejects to its caller.
C14_FailureLeavesUnauthenticated ==
  [][ \A o \in OpIds :
        SignRequestFails(o) =>
          /\ ~user'.present
          /\ ~isLoading'
          /\ location' = location
          /\ completed' = [op |-> ops[o].kind, outcome |-> "rejected",
                           status |-> resp'.status] ]_vars

(***************************************************************************)
(* Renewal cycle                                                           *)
(***************************************************************************)
\* The calls whose renewal exchange is in flight.
Renewing == {c \in Calls : pc[c] = "refreshing"}

\* C15: in every reachable state at most one renewal exchange is in flight,
\* and isRefreshing is true exactly while a renewal dispatched by the
\* coordinator is in flight.
C15_MutualExclusion ==
  /\ Cardinality(Renewing) <= 1
  /\ isRefreshing <=> Renewing # {}

\* Every queue entry belongs to one waiting call, and every waiting call
\* has one entry.
OneEntryPerWaiter ==
  /\ Cardinality(InQueue) = Len(failedRequestsQueue)
  /\ InQueue = {c \in Calls : pc[c] = "queued"}

\* C16: a Pending Request Entry is created only while a renewal is in
\* flight, and is settled (resolved or rejected) exactly once, in the step in
\* which that renewal settles; the drain leaves no entry behind.
C16_EntryLifecycle ==
  [][ /\ OneEntryPerWaiter /\ OneEntryPerWaiter'
      /\ \A c \in Calls :
           (c \notin InQueue /\ c \in InQueue') => Renewing # {}
      /\ \A c \in InQueue :
           c \notin InQueue' =>
             /\ pc'[c] \in {"inflight", "rejected"}
             /\ failedRequestsQueue' = <<>>
             /\ \E i \in Renewing : pc'[i] # "refreshing" ]_vars

\* The renewal of call i succeeds / fails in this step.
RenewalSucceeds(i) == pc[i] = "refreshing" /\ pc'[i] = "inflight"

RenewalFails(i) == pc[i] = "refreshing" /\ pc'[i] = "loggingOut"

\* C17: a call that failed with 401 is dispatched again only in the step in
\* which a renewal succeeds, and that step leaves the flag cleared and the
\* queue drained; a step in which a renewal fails replays no call and
\* rejects every queued call; a rejected call is never dispatched again.
C17_ReplayOrdering ==
  [][ /\ \A c \in Calls :
           sends'[c] # sends[c] =>
             /\ sends'[c] = sends[c] + 1
             /\ pc[c] \in {"refreshing", "queued"}
             /\ pc'[c] = "inflight"
             /\ \E i \in Calls : RenewalSucceeds(i)
             /\ ~isRefreshing'
             /\ failedRequestsQueue' = <<>>
      /\ \A i \in Calls :
           RenewalFails(i) =>
             /\ sends' = sends
             /\ ~isRefreshing'
             /\ failedRequestsQueue' = <<>>
             /\ \A d \in InQueue : pc'[d] = "rejected"
      /\ \A c \in Calls :
           pc[c] = "rejected" => (pc'[c] = "rejected" /\ sends'[c] = sends[c]) ]_vars

\* One renewal succeeded; its initiating call and a queued call were each
\* replayed once and resolved.
C17_Witness ==
  \E c, d \in Calls :
    /\ c # d
    /\ retry[c] /\ sends[c] = 2 /\ pc[c] = "resolved"
    /\ ~retry[d] /\ sends[d] = 2 /\ pc[d] = "resolved"
    /\ ~isRefreshing /\ failedRequestsQueue = <<>>

\* Call c fails in this step with an error that is not a 401.
FailsNon401(c) ==
  /\ pc[c] = "inflight"
  /\ pc'[c] = "rejected"
  /\ err'[c].from = "call"
  /\ err'[c].status # 401

\* C18: a failure that is not a 401 is passed to the caller as it is: no
\* renewal is dispatched, nothing is queued, no logout or navigation
\* happens, and the flag, the queue and the retried marker stay as they were.
C18_Non401PassesThrough ==
  [][ \A c \in Calls :
        FailsNon401(c) =>
          /\ err'[c] = AxiosError("call", err'[c].status, "")
          /\ refreshCalls' = refreshCalls
          /\ failedRequestsQueue' = failedRequestsQueue
          /\ logoutCalls' = logoutCalls
          /\ navCount' = navCount
          /\ isRefreshing' = isRefreshing
          /\ retry' = retry
          /\ sends' = sends
          /\ \A d \in Calls \ {c} : pc'[d] = pc[d] /\ err'[d] = err[d] ]_vars

\* A call failed with 500 while a renewal was pending with a caller queued:
\* flag and queue are as they were.
C18_Witness ==
  \E c \in Calls :
    /\ pc[c] = "rejected"
    /\ err[c] = AxiosError("call", 500, "")
    /\ ~retry[c]
    /\ isRefreshing
    /\ failedRequestsQueue # <<>>

\* C19: whatever the renewal's failure (401, another error status, no
\* response): the flag is cleared, every queued entry is rejected with the
\* renewal error, a logout request is sent; and whatever becomes of the
\* logout request, the navigation to /signin follows and the initiating
\* call rejects with the renewal error.
C19_RenewalFailurePath ==
  [][ /\ \A i \in Calls :
           (pc[i] = "refreshing" /\ pc'[i] # "refreshing" /\ pc'[i] # "inflight") =>
             /\ pc'[i] = "loggingOut"
             /\ err'[i].from = "refresh"
             /\ ~isRefreshing'
             /\ failedRequestsQueue' = <<>>
             /\ \A d \in InQueue : pc'[d] = "rejected" /\ err'[d] = err'[i]
             /\ logoutCalls' = logoutCalls + 1
             /\ sends' = sends
      /\ \A i \in Calls :
           (pc[i] = "loggingOut" /\ pc'[i] # "loggingOut") =>
             /\ pc'[i] = "rejected"
             /\ err'[i] = err[i]
             /\ navCount' = navCount + 1 ]_vars

\* Three renewals failed, one with 401, one with 500 and one without a
\* response; each was followed by a logout request and the navigation.
C19_Witness ==
  /\ \A c \in Calls : pc[c] = "rejected" /\ err[c].from = "refresh"
  /\ {err[c].status : c \in Calls} = {401, 500, 0}
  /\ navCount = 3
  /\ logoutCalls = 3

(***************************************************************************)
(* Logout route                                                            *)
(***************************************************************************)
\* C20: whatever the backend answers to the logout handler (success; 401
\* followed by a refresh and a retry that succeed or fail; another error; no
\* answer; or no call at all because no token came with the request), the
\* handler ends with both session cookies cleared and answers 200.
C20_LogoutRouteClears ==
  resp.route = "logout" => (NoCookies /\ resp.status = 200 /\ resp.wrote)

\* The request carried both cookies, the invalidate-session call was
\* answered 401, the refresh returned a new pair and the retried call failed.
C20_Witness ==
  /\ resp.route = "logout"
  /\ Has(resp.sent.accessToken) /\ Has(resp.sent.refreshToken)
  /\ resp.reply.kind = "error" /\ resp.reply.status = 401
  /\ CredentialPair(resp.reply.refresh)
  /\ resp.reply.retry.kind = "unreachable"
  /\ NoCookies
  /\ resp.status = 200

(***************************************************************************)
(* Renew route                                                             *)
(***************************************************************************)
\* C21: the renew route answers 200 only with both cookies written with the
\* backend's fresh credential pair (one write of the pair); on every other
\* outcome (refresh cookie absent, backend error, no answer, a body missing
\* a credential) both cookies are cleared, the response is not 200, and
\* without a refresh cookie the backend is not called.
C21_RenewRoute ==
  resp.route = "refresh" =>
    /\ resp.wrote
    /\ resp.status = 200 =>
         /\ Has(resp.sent.refreshToken) /\ resp.called /\ CredentialPair(resp.reply)
         /\ cookies = setAuthCookies(Token, Token)
    /\ ~Has(resp.sent.refreshToken) => ~resp.called
    /\ ~(Has(resp.sent.refreshToken) /\ resp.called /\ CredentialPair(resp.reply)) =>
         /\ NoCookies
         /\ resp.status # 200

(***************************************************************************)
(* Validation                                                              *)
(***************************************************************************)
\* The request served last is a sign-in without email or password, or a
\* sign-up without email, username or password.
FieldMissing ==
  \/ resp.route = "signin" /\ (Blank(resp.body.email) \/ Blank(resp.body.password))
  \/ /\ resp.route = "signup"
     /\ (Blank(resp.body.email) \/ Blank(resp.body.username) \/ Blank(resp.body.password))

\* C22: a sign-in request missing email or password, and a sign-up request
\* missing email, username or password, is answered 400 without a call to
\* the backend and with every cookie as the request found it.
C22_ValidationBeforeNetwork ==
  FieldMissing =>
    /\ resp.status = 400
    /\ ~resp.called
    /\ ~resp.wrote
    /\ cookies = resp.sent

\* A sign-up with email and password but no username, sent with a session's
\* cookies, was answered 400 and the cookies are still there.
C22_Witness ==
  /\ resp.route = "signup"
  /\ ~Blank(resp.body.email) /\ ~Blank(resp.body.password) /\ Blank(resp.body.username)
  /\ resp.status = 400
  /\ ~resp.called
  /\ BothCookies
  /\ cookies = resp.sent

(***************************************************************************)
(* Security profile of the cookie writes                                   *)
(***************************************************************************)
\* The profile of one write: httpOnly, sameSite strict, path "/", and when
\* the write sets the cookie (it is not the clearing write) max-age 900 for
\* the access cookie and 604800 for the refresh cookie.
UniformProfile(write) ==
  /\ write.httpOnly
  /\ write.sameSite = "strict"
  /\ write.path = "/"
  /\ write.maxAge # 0 =>
       write.maxAge = IF write.name = "accessToken" THEN 900 ELSE 604800

\* C23: every write of a session cookie made by a route handler (sign-in,
\* sign-up, renew, logout; setting or clearing) carries the uniform profile.
C23_UniformProfile ==
  \A i \in DOMAIN resp.writes : UniformProfile(resp.writes[i])

(***************************************************************************)
(* Session state store: refreshAuth and isLoading                          *)
(***************************************************************************)
\* C24: when refreshAuth() has completed, isAuthenticated is true if the
\* access cookie is present and false if it is absent, whatever the
\* identity was before, and no backend call was made.
C24_RefreshAuthRederives ==
  [][refreshAuth =>
       /\ isAuthenticated' <=> (cookies'.accessToken # Absent)
       /\ resp' = resp]_vars

\* A signUp, signIn or logout call is in flight.
InFlight == \E o \in OpIds : ops[o] # Idle

\* C25: isLoading is true whenever a signUp, signIn or logout call is in
\* flight, also when two of them overlap, and false once all of them have
\* completed, whether they succeeded or failed.
C25_LoadingWhileInFlight ==
  /\ InFlight => isLoading
  /\ (~InFlight /\ completed # NoneCompleted) => ~isLoading

(***************************************************************************)
(* Route gate: redirects                                                   *)
(***************************************************************************)
\* C26: the route gate never chains redirects: with the cookies of the
\* request unchanged, the page a request was redirected to (/dashboard with
\* the access cookie, /signin without) is passed through by the gate.
C26_NoRedirectChain ==
  gate.decision.kind = "redirect" =>
    proxy(gate.decision.to, gate.cookie) = PassPage

\* A request for a page below /dashboard without a session was sent to
\* /signin, which the gate lets through for the same cookies.
C26_Witness ==
  /\ gate.pathname = <<"/dashboard", "/profile">>
  /\ ~Truthy(gate.cookie)
  /\ gate.decision = Redirect(SigninPath, gate.pathname)
  /\ location = SigninPath
  /\ proxy(location, gate.cookie) = PassPage

(***************************************************************************)
(* Coordinator: flag and queue                                             *)
(***************************************************************************)
\* C27: between interceptor steps, whenever the flag is false the queue is
\* empty; a non-empty queue implies that a renewal is marked in progress
\* (and one is in flight), and every parked call has its entry in the queue,
\* so no entry is left without a renewal that will settle it.
C27_QueueOnlyWhileRefreshing ==
  /\ ~isRefreshing => failedRequestsQueue = << >>
  /\ failedRequestsQueue # << >> => \E c \in Calls : pc[c] = "refreshing"
  /\ \A c \in Calls : pc[c] = "queued" <=> c \in InQueue

\* The flag has been reset and the queue emptied while callers were parked:
\* a renewal failed with two entries in the queue.
C27_Witness ==
  /\ ~isRefreshing
  /\ failedRequestsQueue = << >>
  /\ Cardinality({c \in Calls : pc[c] = "rejected" /\ err[c].from = "refresh"}) >= 2

(***************************************************************************)
(* Logout and a renewal in flight                                          *)
(***************************************************************************)
\* C28: once a logout of the store has completed with the session cookies
\* gone, they stay absent until a sign-in or sign-up succeeds, also when a
\* renewal was in flight when the logout started: the renewal's completion
\* does not create the cookie pair again.
C28_NoCookiesUntilSignIn ==
  [][(completed.op = "logout" /\ NoCookies) =>
       \/ NoCookies'
       \/ completed'.op \in {"signIn", "signUp"} /\ completed'.outcome = "fulfilled"]_vars

C30_ForcedSignOutClearsIdentity ==
  gate # NoGate => (localUser = Null /\ ~isAuthenticated)

\* The part of the statement about the state store.
ForcedSignOutUnauthenticated ==
  gate # NoGate => ~isAuthenticated

====
